---- MODULE Spec2Model ----
(***************************************************************************)
(* manga-cli (src/src/main.rs): search -> selection -> image enumeration   *)
(* -> sequential download -> archive packaging, over a staging directory   *)
(* that outlives the run.                                                  *)
(*                                                                         *)
(* Four specifications share the actions below:                            *)
(*   Spec         one run of main() on a staging directory as earlier runs *)
(*                may have left it;                                        *)
(*   SpecRuns     runs of main() one after another on the same staging     *)
(*                directory, starting with nothing on disk;                *)
(*   SpecArchive  create_pdf / create_cbz entered on any directory         *)
(*                contents (files may have been removed by hand, or the    *)
(*                directory may hold more than 1000 numbered images);      *)
(*   SpecExtract  the two extraction pipelines applied to any document.    *)
(***************************************************************************)
EXTENDS Integers, Sequences, FiniteSets, TLC

VARIABLES
    pc,              \* position of the process
    panic,           \* "" or the place the process died at
    cli,             \* CLI { clear, format }
    runs,            \* runs started so far on this staging directory
    dir_exists,      \* IMAGE_DIR exists
    files,           \* path -> content, the regular files on disk
    document,        \* a parsed response body (SpecExtract)
    manga_ids,       \* main: Vec<String>
    input,           \* prompt: the line read last
    manga_number,    \* main: usize
    manga_link,      \* main: &manga_ids[manga_number]
    chapter_link,    \* main: String
    depth,           \* frames of prompt() on the stack
    images,          \* download_chapter: Vec<String>
    i,               \* download_chapter: images already downloaded
    scan_i,          \* create_pdf / create_cbz: loop variable
    pdf_images,      \* create_pdf: Vec<String>
    zip,             \* create_cbz: entries started in the ZipWriter
    command,         \* the child processes spawned by this run
    log              \* what this run did, in order

vars == <<pc, panic, cli, runs, dir_exists, files, document, manga_ids, input,
          manga_number, manga_link, chapter_link, depth, images, i, scan_i,
          pdf_images, zip, command, log>>

-----------------------------------------------------------------------------
(* Bounds of the model                                                     *)

MaxRuns == 2        \* runs on one staging directory
MaxNodes == 2       \* top-level elements of a document
MaxChildren == 2    \* children of an h3
MaxFile == 4        \* highest image number present in a hand-made directory
StackLimit == 2     \* frames of prompt() the stack has room for

(* Program constants                                                       *)

ScanCap == 1000

\* usize::MAX.  TLC's integers are 32 bits wide, so the model's usize is 31
\* bits wide; what the program depends on is that 0 - 1 wraps to a value no
\* Vec is long enough to be indexed with.
USIZE_MAX == 2147483647

IMAGE_DIR == ".cache/manga-cli"

-----------------------------------------------------------------------------
(* Paths.  format!("{}/{}.jpg", IMAGE_DIR, i) and the like are string      *)
(* concatenations; a relative path handed to a child process is resolved   *)
(* against the child's working directory.                                  *)

JpgName(n) == ToString(n) \o ".jpg"

ImagePath(n) == IMAGE_DIR \o "/" \o JpgName(n)

CbzPath == IMAGE_DIR \o "/" \o "output.cbz"

Resolve(cwd, path) == IF cwd = "" THEN path ELSE cwd \o "/" \o path

Exists(path) == path \in DOMAIN files

WriteFile(fs, path, content) ==
    [p \in DOMAIN fs \cup {path} |-> IF p = path THEN content ELSE fs[p]]

NoFiles == [p \in {} |-> 0]

-----------------------------------------------------------------------------
(* Documents.  A node is [name, attrs, children]; attrs is a sequence of   *)
(* <<attribute, value>> pairs.  select's Document keeps the nodes in       *)
(* document (pre-)order.                                                   *)

Node(name, attrs, children) ==
    [name |-> name, attrs |-> attrs, children |-> children]

RECURSIVE Flatten(_)
Flatten(nodes) ==
    IF nodes = <<>> THEN <<>>
    ELSE <<Head(nodes)>> \o Flatten(Head(nodes).children) \o Flatten(Tail(nodes))

\* Document::find(Name(tag))
DocumentFind(doc, tag) == SelectSeq(Flatten(doc), LAMBDA n : n.name = tag)

\* Node::find(Name(tag)): the descendants, the node itself excluded
NodeFind(node, tag) == SelectSeq(Flatten(node.children), LAMBDA n : n.name = tag)

\* Node::attr(name) as an Option: <<>> is None, <<v>> is Some(v)
NodeAttr(node, name) ==
    LET hits == SelectSeq(node.attrs, LAMBDA kv : kv[1] = name)
    IN  IF hits = <<>> THEN <<>> ELSE <<hits[1][2]>>

\* Iterator::next() as an Option
IterNext(s) == IF s = <<>> THEN <<>> ELSE <<s[1]>>

\* Iterator::filter_map(f).collect(), given the Option f returns for each
\* element: the Nones are dropped, the order kept
RECURSIVE FilterMap(_)
FilterMap(options) ==
    IF options = <<>> THEN <<>>
    ELSE Head(options) \o FilterMap(Tail(options))

\* a plausible slip: the last link of the heading
FirstLink_last(node) ==
    IF NodeFind(node, "a") = <<>> THEN <<>>
    ELSE <<NodeFind(node, "a")[Len(NodeFind(node, "a"))]>>

\* line 74: node.find(Name("a")).next()
FirstLink(node) == IterNext(NodeFind(node, "a"))

HrefOf(node) == NodeAttr(node, "href")

SrcOf(node) == NodeAttr(node, "src")

\* fetch_manga_ids, lines 71-76
ExtractTitles(doc) ==
    LET h3 == DocumentFind(doc, "h3")
        links == FilterMap([k \in 1..Len(h3) |-> FirstLink(h3[k])])
    IN  FilterMap([k \in 1..Len(links) |-> HrefOf(links[k])])

\* fetch_image_links, lines 110-114
ExtractImages(doc) ==
    LET img == DocumentFind(doc, "img")
    IN  FilterMap([k \in 1..Len(img) |-> SrcOf(img[k])])

-----------------------------------------------------------------------------
(* Input sets                                                              *)

SeqsUpTo(S, n) == UNION {[1..k -> S] : k \in 0..n}

Link(href) == Node("a", <<<<"href", href>>>>, <<>>)

BareLink == Node("a", <<<<"class", "x">>>>, <<>>)

Img(src) == Node("img", <<<<"src", src>>>>, <<>>)

BareImg == Node("img", <<<<"alt", "x">>>>, <<>>)

Hrefs == {"/m1", "/m2"}

Srcs == {"u1", "u2"}

Links == {Link(h) : h \in Hrefs} \cup {BareLink}

Imgs == {Img(s) : s \in Srcs} \cup {BareImg}

H3s == {Node("h3", <<>>, c) : c \in SeqsUpTo(Links, MaxChildren)}

\* any document: headings with up to MaxChildren links, images at top level
\* and nested, links outside headings
Documents ==
    SeqsUpTo(H3s \cup Imgs \cup {Link("/m2"), Node("div", <<>>, <<Img("u2"), Link("/m1")>>)},
             MaxNodes)

\* the pages the server answers a search and a chapter request with
SearchBodies == SeqsUpTo({Node("h3", <<>>, <<l>>) : l \in Links}, MaxNodes)

ChapterBodies == SeqsUpTo(Imgs, MaxNodes)

Statuses == {200, 404}

IsSuccess(status) == status >= 200 /\ status <= 299

\* lines of standard input, as characters; <<>> is what read_line leaves in
\* the buffer at end of input
InputLines ==
    { <<"0", "\n">>, <<"1", "\n">>, <<"2", "\n">>, <<"3", "\n">>,
      <<" ", "+", "2", " ", "\n">>, <<"x", "\n">>, <<"-", "1", "\n">>,
      <<"1", " ", "2", "\n">>, <<"\n">>, <<>> }

-----------------------------------------------------------------------------
(* str::trim and str::parse::<usize>                                       *)

IsWhitespace(c) == c \in {" ", "\n", "\t", "\r"}

RECURSIVE TrimStart(_)
TrimStart(s) ==
    IF s # <<>> /\ IsWhitespace(Head(s)) THEN TrimStart(Tail(s)) ELSE s

RECURSIVE TrimEnd(_)
TrimEnd(s) ==
    IF s # <<>> /\ IsWhitespace(s[Len(s)])
    THEN TrimEnd(SubSeq(s, 1, Len(s) - 1)) ELSE s

Trim(s) == TrimEnd(TrimStart(s))

IsDigit(c) == \E d \in 0..9 : ToString(d) = c

DigitValue(c) == CHOOSE d \in 0..9 : ToString(d) = c

\* the digits of an unsigned number, most significant first; <<>> is Err
\* (InvalidDigit or PosOverflow), <<n>> is Ok(n)
RECURSIVE ParseDigits(_, _)
ParseDigits(s, acc) ==
    IF s = <<>> THEN <<acc>>
    ELSE IF ~IsDigit(Head(s)) THEN <<>>
    ELSE IF acc > (USIZE_MAX - DigitValue(Head(s))) \div 10 THEN <<>>
    ELSE ParseDigits(Tail(s), acc * 10 + DigitValue(Head(s)))

\* usize::from_str: Err on "", "+", "-"; a leading "+" is accepted, a
\* leading "-" is an invalid digit of an unsigned type
ParseUsize(s) ==
    IF s = <<>> THEN <<>>
    ELSE IF Len(s) = 1 /\ Head(s) \in {"+", "-"} THEN <<>>
    ELSE IF Head(s) = "+" THEN ParseDigits(Tail(s), 0)
    ELSE ParseDigits(s, 0)

\* prompt, line 197: input.trim().parse()
ParseLine(line) == ParseUsize(Trim(line))

-----------------------------------------------------------------------------
(* State shared by the actions                                             *)

Ev(ev, n, s) == [ev |-> ev, n |-> n, s |-> s]

Formats == {"none", "pdf", "cbz"}

Clis == [clear : BOOLEAN, format : Formats]

\* a plausible slip: a subtraction that stops at 0
WrappingSub_saturating(a, b) == IF a >= b THEN a - b ELSE 0

\* usize subtraction in a build without overflow checks
WrappingSub(a, b) == IF a >= b THEN a - b ELSE USIZE_MAX - (b - a) + 1

\* .send()?.text()?: Err only when the exchange itself failed; a response is
\* Ok whatever its status (there is no error_for_status())
SendOk(delivered, status) == delivered

\* the lines main prints before the first prompt (lines 49-51): the number
\* shown and the title next to it
Display(ids) == [k \in 1..Len(ids) |-> <<k, ids[k]>>]

\* the child process: ImageMagick reads every input of the command, resolved
\* against its working directory, and writes the last argument
MagickInputs(cmd) == SubSeq(cmd.args, 4, Len(cmd.args) - 1)

MagickOutput(cmd) == Resolve(cmd.cwd, cmd.args[Len(cmd.args)])

MagickSucceeds(cmd) ==
    \A k \in 1..Len(MagickInputs(cmd)) : Exists(Resolve(cmd.cwd, MagickInputs(cmd)[k]))

Stopped == pc \in {"exit", "panicked", "aborted"}

LocalsFresh ==
    /\ panic = ""
    /\ document = <<>>
    /\ manga_ids = <<>>
    /\ input = <<>>
    /\ manga_number = 0
    /\ manga_link = ""
    /\ chapter_link = ""
    /\ depth = 0
    /\ images = <<>>
    /\ i = 0
    /\ scan_i = 0
    /\ pdf_images = <<>>
    /\ zip = <<>>
    /\ command = <<>>
    /\ log = <<>>

\* an image an earlier run downloaded
OldImage == [src |-> "old", status |-> 200]

\* the staging directory holding the images numbered in S
Directory(S) == [p \in {ImagePath(n) : n \in S} |-> OldImage]

\* main, line 38: the arguments parsed.  The staging directory is absent or
\* as an earlier run of n images left it.
Init ==
    /\ pc = "main"
    /\ cli \in Clis
    /\ runs = 1
    /\ \/ dir_exists = FALSE /\ files = NoFiles
       \/ dir_exists = TRUE /\ \E n \in 0..MaxFile : files = Directory(1..n)
    /\ LocalsFresh

\* the first run on a machine: nothing on disk yet
InitFresh ==
    /\ pc = "main"
    /\ cli \in Clis
    /\ runs = 1
    /\ dir_exists = FALSE
    /\ files = NoFiles
    /\ LocalsFresh

-----------------------------------------------------------------------------
(* main, lines 40-43, and clear_cache.  remove_dir_all fails when the      *)
(* directory is absent or cannot be removed; a failed removal may already  *)
(* have deleted the files.                                                 *)

\* a plausible slip: the removal's error is not caught
clear_cache_unwrap ==
    /\ pc = "main"
    /\ cli.clear
    /\ \E outcome \in {"removed", "failed", "emptied"} :
         IF dir_exists /\ outcome = "removed"
         THEN /\ dir_exists' = FALSE
              /\ files' = NoFiles
              /\ log' = Append(log, Ev("clear_cache", 1, "Cleared cache."))
              /\ pc' = "exit"
              /\ UNCHANGED panic
         ELSE /\ dir_exists' = dir_exists
              /\ files' = IF dir_exists /\ outcome = "emptied" THEN NoFiles ELSE files
              /\ log' = Append(log, Ev("clear_cache", 0, ""))
              /\ pc' = "panicked"
              /\ panic' = "called Result::unwrap() on an Err value"
    /\ UNCHANGED <<cli, runs, document, manga_ids, input, manga_number,
                   manga_link, chapter_link, depth, images, i, scan_i,
                   pdf_images, zip, command>>

clear_cache ==
    /\ pc = "main"
    /\ cli.clear
    /\ \E outcome \in {"removed", "failed", "emptied"} :
         IF dir_exists /\ outcome = "removed"
         THEN /\ dir_exists' = FALSE
              /\ files' = NoFiles
              /\ log' = Append(log, Ev("clear_cache", 1, "Cleared cache."))
         ELSE /\ dir_exists' = dir_exists
              /\ files' = IF dir_exists /\ outcome = "emptied" THEN NoFiles ELSE files
              /\ log' = Append(log, Ev("clear_cache", 0, "No cache to clear."))
    /\ pc' = "exit"
    /\ UNCHANGED <<panic, cli, runs, document, manga_ids, input, manga_number,
                   manga_link, chapter_link, depth, images, i, scan_i,
                   pdf_images, zip, command>>

(* main, lines 45-53 up to the read of the first prompt, with              *)
(* fetch_manga_ids                                                         *)

fetch_manga_ids ==
    /\ pc = "main"
    /\ ~cli.clear
    /\ \E delivered \in BOOLEAN, status \in Statuses, body \in SearchBodies :
         IF ~SendOk(delivered, status)
         THEN /\ pc' = "panicked"
              /\ panic' = "Failed to fetch manga IDs"
              /\ log' = Append(log, Ev("get", 0, "search"))
              /\ UNCHANGED <<manga_ids, depth>>
         ELSE /\ manga_ids' = ExtractTitles(body)
              /\ log' = log \o <<Ev("get", status, "search"), Ev("parse", status, "search"),
                                 Ev("prompt", 0, "Enter number: ")>>
              /\ pc' = "prompt_manga"
              /\ depth' = 1
              /\ UNCHANGED panic
    /\ UNCHANGED <<cli, runs, dir_exists, files, document, input, manga_number,
                   manga_link, chapter_link, images, i, scan_i, pdf_images,
                   zip, command>>

(* prompt, lines 192-201: a line that does not parse pushes another frame  *)
(* of prompt; the stack has room for StackLimit of them                    *)

Reprompt ==
    IF depth >= StackLimit
    THEN /\ pc' = "aborted"
         /\ panic' = "stack overflow"
         /\ UNCHANGED depth
    ELSE /\ depth' = depth + 1
         /\ UNCHANGED <<pc, panic>>

(* main, lines 53-56: the first prompt returns, the number is turned into  *)
(* an index and the link taken                                             *)

prompt_manga ==
    /\ pc = "prompt_manga"
    /\ \E line \in InputLines, checks \in BOOLEAN :
         /\ input' = line
         /\ IF ParseLine(line) = <<>>
            THEN /\ Reprompt
                 /\ UNCHANGED <<manga_number, manga_link, log>>
            ELSE LET n == ParseLine(line)[1]
                     index == WrappingSub(n, 1)
                 IN  IF checks /\ n < 1
                     THEN /\ pc' = "panicked"
                          /\ panic' = "attempt to subtract with overflow"
                          /\ depth' = 0
                          /\ UNCHANGED <<manga_number, manga_link, log>>
                     ELSE IF index >= Len(manga_ids)
                     THEN /\ pc' = "panicked"
                          /\ panic' = "index out of bounds"
                          /\ depth' = 0
                          /\ manga_number' = index
                          /\ UNCHANGED <<manga_link, log>>
                     ELSE /\ manga_number' = index
                          /\ manga_link' = manga_ids[index + 1]
                          /\ log' = Append(log, Ev("prompt", 0, "Enter chapter number: "))
                          /\ pc' = "prompt_chapter"
                          /\ depth' = 1
                          /\ UNCHANGED panic
    /\ UNCHANGED <<cli, runs, dir_exists, files, document, manga_ids,
                   chapter_link, images, i, scan_i, pdf_images, zip, command>>

(* main, lines 56-60: the second prompt returns, the chapter link is       *)
(* composed and download_chapter entered.  main reads none of its other    *)
(* locals again: they leave the state.                                     *)

prompt_chapter ==
    /\ pc = "prompt_chapter"
    /\ \E line \in InputLines :
         IF ParseLine(line) = <<>>
         THEN /\ Reprompt
              /\ input' = line
              /\ UNCHANGED <<chapter_link, manga_ids, manga_number, manga_link>>
         ELSE /\ chapter_link' = manga_link \o "/chapter-" \o ToString(ParseLine(line)[1])
              /\ pc' = "download_chapter"
              /\ depth' = 0
              /\ input' = <<>>
              /\ manga_ids' = <<>>
              /\ manga_number' = 0
              /\ manga_link' = ""
              /\ UNCHANGED panic
    /\ UNCHANGED <<cli, runs, dir_exists, files, document, images, i, scan_i,
                   pdf_images, zip, command, log>>

-----------------------------------------------------------------------------
(* download_chapter, line 85, with fetch_image_links.  An Err of           *)
(* download_chapter ends in main's expect (line 60).  The link is not read *)
(* again once the page is fetched.                                         *)

fetch_image_links ==
    /\ pc = "download_chapter"
    /\ \E delivered \in BOOLEAN, status \in Statuses, body \in ChapterBodies :
         IF ~SendOk(delivered, status)
         THEN /\ pc' = "panicked"
              /\ panic' = "Failed to download chapter"
              /\ log' = Append(log, Ev("get", 0, "chapter"))
              /\ UNCHANGED <<images, chapter_link>>
         ELSE /\ images' = ExtractImages(body)
              /\ log' = log \o <<Ev("get", status, "chapter"), Ev("parse", status, "chapter")>>
              /\ pc' = "create_image_directory"
              /\ chapter_link' = ""
              /\ UNCHANGED panic
    /\ UNCHANGED <<cli, runs, dir_exists, files, document, manga_ids, input,
                   manga_number, manga_link, depth, i, scan_i, pdf_images, zip,
                   command>>

(* download_chapter, line 87, with create_image_directory                  *)

create_image_directory ==
    /\ pc = "create_image_directory"
    /\ dir_exists' = TRUE
    /\ log' = Append(log, Ev("create_dir_all", 0, IMAGE_DIR))
    /\ i' = 0
    /\ pc' = "download"
    /\ UNCHANGED <<panic, cli, runs, files, document, manga_ids, input,
                   manga_number, manga_link, chapter_link, depth, images,
                   scan_i, pdf_images, zip, command>>

\* a plausible slip: the file named by the 0-based position
TargetPath_zero_based(k) == ImagePath(k)

\* line 89: the file the image at 0-based position k goes to
TargetPath(k) == ImagePath(k + 1)

(* download_chapter, lines 88-91: one turn of the loop, with               *)
(* download_image; the body of the response is what is written             *)

download_image ==
    /\ pc = "download"
    /\ i < Len(images)
    /\ \E delivered \in BOOLEAN, status \in Statuses :
         IF ~SendOk(delivered, status)
         THEN /\ pc' = "panicked"
              /\ panic' = "Failed to download chapter"
              /\ log' = Append(log, Ev("get", 0, images[i + 1]))
              /\ UNCHANGED <<files, i>>
         ELSE /\ files' = WriteFile(files, TargetPath(i),
                                    [src |-> images[i + 1], status |-> status])
              /\ log' = log \o <<Ev("get", status, images[i + 1]),
                                 Ev("write", i + 1, images[i + 1])>>
              /\ i' = i + 1
              /\ UNCHANGED <<pc, panic>>
    /\ UNCHANGED <<cli, runs, dir_exists, document, manga_ids, input,
                   manga_number, manga_link, chapter_link, depth, images,
                   scan_i, pdf_images, zip, command>>

(* download_chapter, lines 93-99: the loop is over                         *)

download_chapter_match ==
    /\ pc = "download"
    /\ i >= Len(images)
    /\ pc' = CASE cli.format = "pdf" -> "create_pdf"
               [] cli.format = "cbz" -> "create_cbz"
               [] OTHER -> "exit"
    /\ log' = Append(log, Ev("match", Len(images), cli.format))
    /\ scan_i' = 1
    /\ pdf_images' = <<>>
    /\ UNCHANGED <<panic, cli, runs, dir_exists, files, document, manga_ids,
                   input, manga_number, manga_link, chapter_link, depth,
                   images, i, zip, command>>

-----------------------------------------------------------------------------
(* create_pdf, lines 133-141: one turn of the scan                         *)

\* a plausible slip: a scan without the cap
ScanGoesOn_uncapped == Exists(ImagePath(scan_i))

\* lines 134-136 and 167-170: the loop neither ran out nor met a gap
ScanGoesOn == scan_i <= ScanCap /\ Exists(ImagePath(scan_i))

create_pdf_loop ==
    /\ pc = "create_pdf"
    /\ ScanGoesOn
    /\ pdf_images' = Append(pdf_images, ImagePath(scan_i))
    /\ scan_i' = scan_i + 1
    /\ UNCHANGED <<pc, panic, cli, runs, dir_exists, files, document,
                   manga_ids, input, manga_number, manga_link, chapter_link,
                   depth, images, i, zip, command, log>>

\* lines 147-151
MagickCommand(imgs) ==
    [program |-> "magick",
     args |-> <<"convert", "-quality", "100">> \o imgs \o <<"output.pdf">>,
     cwd |-> IMAGE_DIR]

PdfPath == IMAGE_DIR \o "/" \o "output.pdf"

\* a plausible slip: no check for an empty scan
NoImages_unchecked(imgs) == FALSE

\* line 143
NoImages(imgs) == imgs = <<>>

(* create_pdf, lines 143-159: the scan is over                             *)

create_pdf_convert ==
    /\ pc = "create_pdf"
    /\ ~ScanGoesOn
    /\ \E installed \in BOOLEAN :
         LET cmd == MagickCommand(pdf_images)
         IN  IF NoImages(pdf_images)
             THEN /\ pc' = "panicked"
                  /\ panic' = "No images found to convert to PDF."
                  /\ UNCHANGED <<files, command>>
             ELSE IF ~installed
             THEN /\ pc' = "panicked"
                  /\ panic' = "magick: No such file or directory"
                  /\ UNCHANGED <<files, command>>
             ELSE IF ~MagickSucceeds(cmd)
             THEN /\ pc' = "panicked"
                  /\ panic' = "Failed to create PDF"
                  /\ command' = Append(command, cmd)
                  /\ UNCHANGED files
             ELSE /\ pc' = "exit"
                  /\ command' = Append(command, cmd)
                  /\ files' = WriteFile(files, MagickOutput(cmd),
                                 [pages |-> [k \in 1..Len(MagickInputs(cmd)) |->
                                     files[Resolve(cmd.cwd, MagickInputs(cmd)[k])]]])
                  /\ UNCHANGED panic
    /\ UNCHANGED <<cli, runs, dir_exists, document, manga_ids, input,
                   manga_number, manga_link, chapter_link, depth, images, i,
                   scan_i, pdf_images, zip, log>>

(* create_cbz, lines 163-165: File::create truncates the archive           *)

create_cbz_open ==
    /\ pc = "create_cbz"
    /\ files' = WriteFile(files, CbzPath, [entries |-> <<>>])
    /\ zip' = <<>>
    /\ scan_i' = 1
    /\ pc' = "create_cbz_loop"
    /\ UNCHANGED <<panic, cli, runs, dir_exists, document, manga_ids, input,
                   manga_number, manga_link, chapter_link, depth, images, i,
                   pdf_images, command, log>>

(* create_cbz, lines 167-177: one turn of the scan                         *)

create_cbz_loop ==
    /\ pc = "create_cbz_loop"
    /\ ScanGoesOn
    /\ zip' = Append(zip, [name |-> JpgName(scan_i), data |-> files[ImagePath(scan_i)]])
    /\ scan_i' = scan_i + 1
    /\ UNCHANGED <<pc, panic, cli, runs, dir_exists, files, document,
                   manga_ids, input, manga_number, manga_link, chapter_link,
                   depth, images, i, pdf_images, command, log>>

(* create_cbz, lines 179-181: the scan is over                             *)

create_cbz_finish ==
    /\ pc = "create_cbz_loop"
    /\ ~ScanGoesOn
    /\ files' = WriteFile(files, CbzPath, [entries |-> zip])
    /\ pc' = "exit"
    /\ UNCHANGED <<panic, cli, runs, dir_exists, document, manga_ids, input,
                   manga_number, manga_link, chapter_link, depth, images, i,
                   scan_i, pdf_images, zip, command, log>>

-----------------------------------------------------------------------------
(* The program is started again on the staging directory the last run left *)

new_run ==
    /\ Stopped
    /\ runs < MaxRuns
    /\ runs' = runs + 1
    /\ cli' \in Clis
    /\ pc' = "main"
    /\ panic' = ""
    /\ document' = <<>>
    /\ manga_ids' = <<>>
    /\ input' = <<>>
    /\ manga_number' = 0
    /\ manga_link' = ""
    /\ chapter_link' = ""
    /\ depth' = 0
    /\ images' = <<>>
    /\ i' = 0
    /\ scan_i' = 0
    /\ pdf_images' = <<>>
    /\ zip' = <<>>
    /\ command' = <<>>
    /\ log' = <<>>
    /\ UNCHANGED <<dir_exists, files>>

Run ==
    \/ clear_cache
    \/ fetch_manga_ids
    \/ prompt_manga
    \/ prompt_chapter
    \/ fetch_image_links
    \/ create_image_directory
    \/ download_image
    \/ download_chapter_match
    \/ create_pdf_loop
    \/ create_pdf_convert
    \/ create_cbz_open
    \/ create_cbz_loop
    \/ create_cbz_finish

\* one run of the program
Next == Run

Spec == Init /\ [][Next]_vars

\* runs one after another, from a machine with nothing on disk
NextRuns == Run \/ new_run

SpecRuns == InitFresh /\ [][NextRuns]_vars

-----------------------------------------------------------------------------
(* create_pdf and create_cbz entered on any staging directory: images      *)
(* removed by hand leave gaps, and a directory may hold more numbered      *)
(* images than the scan looks at                                           *)

InitArchive ==
    /\ pc \in {"create_pdf", "create_cbz"}
    /\ cli = [clear |-> FALSE, format |-> IF pc = "create_pdf" THEN "pdf" ELSE "cbz"]
    /\ runs = 1
    /\ dir_exists = TRUE
    /\ \/ \E S \in SUBSET (1..MaxFile) : files = Directory(S)
       \/ files = Directory(1..(ScanCap + 1))
    /\ panic = ""
    /\ document = <<>>
    /\ manga_ids = <<>>
    /\ input = <<>>
    /\ manga_number = 0
    /\ manga_link = ""
    /\ chapter_link = ""
    /\ depth = 0
    /\ images = <<>>
    /\ i = 0
    /\ scan_i = 1
    /\ pdf_images = <<>>
    /\ zip = <<>>
    /\ command = <<>>
    /\ log = <<>>

NextArchive ==
    \/ create_pdf_loop
    \/ create_pdf_convert
    \/ create_cbz_open
    \/ create_cbz_loop
    \/ create_cbz_finish

SpecArchive == InitArchive /\ [][NextArchive]_vars

-----------------------------------------------------------------------------
(* The two extraction pipelines on any document                            *)

InitExtract ==
    /\ pc \in {"parse_titles", "parse_images"}
    /\ document \in Documents
    /\ cli = [clear |-> FALSE, format |-> "none"]
    /\ runs = 1
    /\ dir_exists = FALSE
    /\ files = NoFiles
    /\ panic = ""
    /\ manga_ids = <<>>
    /\ input = <<>>
    /\ manga_number = 0
    /\ manga_link = ""
    /\ chapter_link = ""
    /\ depth = 0
    /\ images = <<>>
    /\ i = 0
    /\ scan_i = 0
    /\ pdf_images = <<>>
    /\ zip = <<>>
    /\ command = <<>>
    /\ log = <<>>

\* fetch_manga_ids, lines 71-78
parse_titles ==
    /\ pc = "parse_titles"
    /\ manga_ids' = ExtractTitles(document)
    /\ pc' = "parsed_titles"
    /\ UNCHANGED <<panic, cli, runs, dir_exists, files, document, input,
                   manga_number, manga_link, chapter_link, depth, images, i,
                   scan_i, pdf_images, zip, command, log>>

\* fetch_image_links, lines 110-116
parse_images ==
    /\ pc = "parse_images"
    /\ images' = ExtractImages(document)
    /\ pc' = "parsed_images"
    /\ UNCHANGED <<panic, cli, runs, dir_exists, files, document, manga_ids,
                   input, manga_number, manga_link, chapter_link, depth, i,
                   scan_i, pdf_images, zip, command, log>>

NextExtract == parse_titles \/ parse_images

SpecExtract == InitExtract /\ [][NextExtract]_vars

-----------------------------------------------------------------------------
(* Properties                                                              *)

Logged(ev) == SelectSeq(log, LAMBDA e : e.ev = ev)

\* the run reached the end of the download loop
Matched == Logged("match") # <<>>

\* the length of the run 1.jpg, 2.jpg, ... on disk, the cap applied
ContiguousCount ==
    CHOOSE k \in 0..ScanCap :
        /\ \A n \in 1..k : Exists(ImagePath(n))
        /\ k = ScanCap \/ ~Exists(ImagePath(k + 1))

\* C1: when create_pdf or create_cbz has finished its scan, the images it
\* took are exactly 1..k in ascending order, k the length of the gap-free
\* run of numbered files starting at 1.jpg, at most 1000: the arguments of
\* the conversion command for create_pdf, the entries of output.cbz for
\* create_cbz.
C1_ContiguousScan ==
    (pc \in {"exit", "panicked"}) =>
        /\ cli.format = "pdf" =>
              /\ pdf_images = [n \in 1..ContiguousCount |-> ImagePath(n)]
              /\ \A c \in 1..Len(command) : MagickInputs(command[c]) = pdf_images
        /\ cli.format = "cbz" =>
              /\ zip = [n \in 1..ContiguousCount |->
                          [name |-> JpgName(n), data |-> files[ImagePath(n)]]]
              /\ files[CbzPath].entries = zip

\* C1 witness: 1.jpg, 2.jpg, 4.jpg on disk, an archive of exactly 1 and 2
C1_Witness ==
    /\ pc = "exit"
    /\ cli.format = "cbz"
    /\ Exists(ImagePath(4))
    /\ ~Exists(ImagePath(3))
    /\ [n \in 1..Len(zip) |-> zip[n].name] = <<"1.jpg", "2.jpg">>

\* C2: a run that reaches the archive step with no 1.jpg on disk ends, for
\* PDF, in the error "No images found" with no conversion command spawned
\* and no output.pdf, and for CBZ, normally with an output.cbz of no entries.
C2_EmptyInput ==
    (Stopped /\ Matched /\ ~Exists(ImagePath(1))) =>
        /\ cli.format = "pdf" =>
              /\ pc = "panicked"
              /\ panic = "No images found to convert to PDF."
              /\ command = <<>>
              /\ ~Exists(PdfPath)
        /\ cli.format = "cbz" =>
              /\ pc = "exit"
              /\ Exists(CbzPath)
              /\ files[CbzPath].entries = <<>>

\* C2 witness: the PDF build refused on an empty directory
C2_Witness ==
    /\ pc = "panicked"
    /\ Matched
    /\ cli.format = "pdf"
    /\ ~Exists(ImagePath(1))
    /\ dir_exists

\* C3: with the clear flag set the run can always take its one step,
\* clear_cache, and takes no other; the step ends the run normally: nothing
\* is requested, prompted for, downloaded or built, and when the directory
\* does not exist the notice is "No cache to clear." and the disk is as it
\* was.
C3_ClearOnly ==
    /\ [](cli.clear => (pc = "exit" \/ ENABLED clear_cache))
    /\ [][cli.clear =>
             /\ pc = "main"
             /\ pc' = "exit"
             /\ panic' = ""
             /\ Len(log') = 1
             /\ log'[1].ev = "clear_cache"
             /\ command' = <<>>
             /\ depth' = 0
             /\ ~dir_exists =>
                   /\ log'[1].s = "No cache to clear."
                   /\ files' = files
                   /\ dir_exists' = dir_exists]_vars

\* C3 witness: a clear run that found no directory has ended
C3_Witness ==
    /\ cli.clear
    /\ pc = "exit"
    /\ ~dir_exists
    /\ Len(log) = 1
    /\ log[1].s = "No cache to clear."

\* C4: a fetch that does not come back with a success status (a transport
\* failure, logged with status 0, or a non-success HTTP status) is the last
\* thing the run does, and the run has aborted: no body is parsed and no
\* file written after it.
C4_NonSuccessAborts ==
    \A k \in 1..Len(log) :
        (log[k].ev = "get" /\ ~IsSuccess(log[k].n)) =>
            /\ k = Len(log)
            /\ pc = "panicked"

\* C5 as stated: the step in which the first prompt returns n ends, for n
\* outside 1..L, in the out-of-bounds failure of the indexing with nothing
\* shown, fetched or written, and for n inside 1..L takes the link displayed
\* with n; a failed run takes no further step.
C5_OutOfRangeIndexing ==
    [][/\ pc # "panicked"
       /\ (pc = "prompt_manga" /\ ParseLine(input') # <<>>) =>
             LET n == ParseLine(input')[1]
             IN  IF n \in 1..Len(manga_ids)
                 THEN /\ pc' = "prompt_chapter"
                      /\ \E d \in 1..Len(manga_ids) :
                            Display(manga_ids)[d] = <<n, manga_link'>>
                 ELSE /\ pc' = "panicked"
                      /\ panic' = "index out of bounds"
                      /\ log' = log
                      /\ files' = files]_vars

\* C5 as amended: as above, but the failure is the out-of-bounds failure of
\* the indexing or, for the selection 0 in a build with overflow checks, the
\* overflow failure of the subtraction before it.
C5_OutOfRangeFatal ==
    [][/\ pc # "panicked"
       /\ (pc = "prompt_manga" /\ ParseLine(input') # <<>>) =>
             LET n == ParseLine(input')[1]
             IN  IF n \in 1..Len(manga_ids)
                 THEN /\ pc' = "prompt_chapter"
                      /\ \E d \in 1..Len(manga_ids) :
                            Display(manga_ids)[d] = <<n, manga_link'>>
                 ELSE /\ pc' = "panicked"
                      /\ \/ panic' = "index out of bounds"
                         \/ n = 0 /\ panic' = "attempt to subtract with overflow"
                      /\ log' = log
                      /\ files' = files]_vars

\* C5 witness: the selection 0 wrapped to usize::MAX and failed the indexing
C5_Witness ==
    /\ pc = "panicked"
    /\ panic = "index out of bounds"
    /\ ParseLine(input) = <<0>>
    /\ manga_number = USIZE_MAX
    /\ manga_ids # <<>>
    /\ Logged("prompt") = <<Ev("prompt", 0, "Enter number: ")>>

\* the value of attribute attr on a node, when it carries one
Carries(node, attr) == \E k \in 1..Len(node.attrs) : node.attrs[k][1] = attr

ValueOf(node, attr) ==
    node.attrs[CHOOSE k \in 1..Len(node.attrs) :
                  /\ node.attrs[k][1] = attr
                  /\ \A j \in 1..(k - 1) : node.attrs[j][1] # attr][2]

\* result holds the values the containers of a document give, container by
\* container in document order: targets[k] is the element of the k-th
\* container the attribute is read off (<<>> when there is none)
Expected(targets, attr, result) ==
    LET good == {k \in 1..Len(targets) :
                    /\ targets[k] # <<>>
                    /\ Carries(targets[k][1], attr)}
        nth(j) == CHOOSE k \in good : Cardinality({m \in good : m <= k}) = j
    IN  /\ Len(result) = Cardinality(good)
        /\ \A j \in 1..Len(result) :
              result[j] = ValueOf(targets[nth(j)][1], attr)

FirstA(c) ==
    LET inside == Flatten(c.children)
        hits == {k \in 1..Len(inside) : inside[k].name = "a"}
    IN  IF hits = {} THEN <<>>
        ELSE <<inside[CHOOSE k \in hits : \A m \in hits : k <= m]>>

Itself(c) == <<c>>

\* C6: the titles extracted from a document are, in document order, the
\* href of the first a inside each h3 whose first a carries one; the images
\* are the src of each img that carries one; one value per such container,
\* the others skipped, and a document with none gives the empty sequence.
C6_ExtractorOrder ==
    /\ pc = "parsed_titles" =>
          LET h3 == DocumentFind(document, "h3")
          IN  Expected([k \in 1..Len(h3) |-> FirstA(h3[k])], "href", manga_ids)
    /\ pc = "parsed_images" =>
          LET img == DocumentFind(document, "img")
          IN  Expected([k \in 1..Len(img) |-> Itself(img[k])], "src", images)

\* C6 witness: a heading whose first link has no href is skipped although a
\* later link of it has one, and the heading after it is kept
C6_Witness ==
    /\ pc = "parsed_titles"
    /\ document = <<Node("h3", <<>>, <<BareLink, Link("/m1")>>),
                    Node("h3", <<>>, <<Link("/m2"), Link("/m1")>>)>>
    /\ manga_ids = <<"/m2">>

\* the image downloads of this run: position in the log of each write
Writes == Logged("write")

\* C7: the directory is ensured before the first image request; every image
\* request is followed at once by the write of its body; the k-th write is
\* of the k-th extracted locator, to k.jpg; and once the loop is over all N
\* files exist with the content of their locators, N writes were made, and
\* nothing is downloaded after the archive step began.
C7_SequentialDownload ==
    /\ Len(Writes) = i
    /\ \A k \in 1..Len(Writes) : Writes[k].n = k /\ Writes[k].s = images[k]
    /\ \A k \in 1..Len(log) :
          /\ log[k].ev = "write" =>
                /\ \E j \in 1..(k - 1) : log[j].ev = "create_dir_all"
                /\ log[k - 1].ev = "get" /\ log[k - 1].s = log[k].s
                /\ Exists(ImagePath(log[k].n))
                /\ files[ImagePath(log[k].n)].src = log[k].s
          /\ log[k].ev = "match" =>
                /\ k = Len(log)
                /\ Len(Writes) = Len(images)
                /\ \A n \in 1..Len(images) :
                      /\ Exists(ImagePath(n))
                      /\ files[ImagePath(n)].src = images[n]
    /\ pc \in {"create_pdf", "create_cbz", "create_cbz_loop"} => Matched

\* C7 witness: two different images downloaded, the archive step begun
C7_Witness ==
    /\ Matched
    /\ Len(images) = 2
    /\ images[1] # images[2]
    /\ pc = "create_cbz"

\* C8: a line that does not parse makes prompt ask again, whatever came
\* before it: the run stays in the prompt and is not aborted.
C8_MalformedInputReprompts ==
    [][(pc \in {"prompt_manga", "prompt_chapter"} /\ ParseLine(input') = <<>>) =>
          /\ pc' = pc
          /\ panic' = ""]_vars

\* C9: the archive built at the end of a run of N images holds exactly the
\* N images of this run, in order.
C9_ArchiveOfThisRun ==
    /\ (pc = "exit" /\ Matched /\ cli.format = "cbz") =>
          /\ Len(zip) = Len(images)
          /\ \A n \in 1..Len(zip) :
                /\ zip[n].name = JpgName(n)
                /\ zip[n].data.src = images[n]
    /\ (Stopped /\ Matched /\ cli.format = "pdf") =>
          pdf_images = [n \in 1..Len(images) |-> ImagePath(n)]

\* C10: every image argument of the conversion command, resolved against
\* the directory the command runs in, is the file the scan found, and the
\* output argument resolves to output.pdf in the staging directory.
C10_ArgumentsResolve ==
    \A c \in 1..Len(command) :
        /\ [k \in 1..Len(MagickInputs(command[c])) |->
               Resolve(command[c].cwd, MagickInputs(command[c])[k])] = pdf_images
        /\ MagickOutput(command[c]) = PdfPath

====
